---- MODULE Spec2Model ----
(***************************************************************************)
(* Model of the flywheel service's scheduler (scheduler/index.ts) and      *)
(* retry queue (services/retry.ts).                                        *)
(*                                                                         *)
(* Every async function is cut at its awaits: one action per resumption.   *)
(* The registry `tasks` is a Map of ScheduledTask objects; a handler keeps *)
(* the object it looked up at entry (taskInfo) for its whole run, so the   *)
(* objects are modelled by identity: object g of a task is the one that    *)
(* the g-th startScheduler call created, together with cron trigger g.     *)
(*                                                                         *)
(* The store client answers a request in one of three ways: it applies it  *)
(* ("up"), it resolves with {error} and changes nothing ("error"), or the  *)
(* call throws ("throws").                                                 *)
(***************************************************************************)
EXTENDS Integers, Sequences, FiniteSets, Bags, TLC

\* ---------------------------------------------------------------- bounds
MaxStarts == 2  \* startScheduler calls in one behaviour
MaxInv == 2  \* handler invocations in flight at the same time
MaxEnqueues == 1  \* addToRetryQueue calls made by callers in one behaviour
MaxHours == 4  \* hours the clock advances in one behaviour
MaxMsTicks == 1  \* single milliseconds the clock advances within one hour
MaxRetryCount == 8  \* largest retry count the backoff is probed with
MaxFailures == 6  \* failed attempts counted per item
MaxRows == 12  \* rows of a retry_queue table drawn as an input
MaxOdd == 2  \* rows of such a table that are not pending and due
MaxOld == 3  \* rows of a table drawn as an input of cleanupRetryQueue
MaxIdle == 2  \* rows, and fallback files, a drain with nothing due starts from
MaxBatch == 2  \* rows of the table a drain works through
MaxBurst == 2  \* addToRetryQueue calls made by callers in a burst

\* ------------------------------------------------------------- constants
TaskNames == {"fee_collection", "buyback", "marketcap", "discovery", "retry"}
\* jobs whose cron expression comes from the configuration
ConfiguredCrons == {"fee_collection", "buyback", "marketcap", "discovery"}
Pools == {"poolA"}
NoPool == "null"
NoTime == -1
NoError == "null"

RETRY_BACKOFF_BASE_SECONDS == 60
MAX_RETRY_BACKOFF_SECONDS == 3600
DefaultMaxRetries == 5
FetchLimit == 10
CleanupDays == 7
HourMs == 60 * 60 * 1000
DayMs == 24 * HourMs

\* the arguments addToRetryQueue is called with
EnqueueArgs ==
  { [operationType |-> "buyback",   poolAddress |-> "poolA", payload |-> "solAmount"],
    [operationType |-> "fee_claim", poolAddress |-> NoPool,  payload |-> "empty"],
    [operationType |-> "register",  poolAddress |-> NoPool,  payload |-> "params"] }
MaxRetriesArgs == {0, DefaultMaxRetries}
BackoffMultipliers == {1, 2, 3}
\* the configurations: the defaults (every cron expression valid, burnAfterBuyback on),
\* or one setting away from them: an invalid BUYBACK_CRON, or burnAfterBuyback off
Configs ==
  LET valid == [n \in ConfiguredCrons |-> TRUE] IN
    { [cronValid |-> valid, burnAfterBuyback |-> TRUE],
      [cronValid |-> [valid EXCEPT !["buyback"] = FALSE], burnAfterBuyback |-> TRUE],
      [cronValid |-> valid, burnAfterBuyback |-> FALSE] }

VARIABLES
  cronValid,        \* cron.validate(expr) for each configured expression
  burnAfterBuyback, \* config.scheduler.burnAfterBuyback
  backoffMultiplier,\* config.retry.backoffMultiplier
  tasks,            \* tasks: name -> object id of the registered ScheduledTask, 0 = no entry
  isRunning,        \* name -> set of object ids whose isRunning field is true
  cronJobs,         \* name -> set of cron triggers (by id) that are scheduled and not stopped
  starts,           \* number of startScheduler calls so far
  inv,              \* bag of handler invocations in flight
  lastLog,          \* the warn/error line the latest step of the scheduler logged, if any
  storeMode,        \* how the store client answers: "up", "error", "throws"
  items,            \* retry_queue: id -> row
  nextId,           \* next id the store assigns
  files,            \* data/retry-fallback: <<epoch ms, operationType>> -> record
  now,              \* Date.now(), in ms
  lastEnqueue,      \* the most recent addToRetryQueue call of a caller and the store's answer
  failures,         \* id -> number of processRetryItem runs that took the failure branch
  succeededOps,     \* ids of the items whose dispatched operation has reported success
  backoffProbe      \* the last calculateNextRetryTime call made on its own

schedVars == <<tasks, isRunning, cronJobs, starts, inv, lastLog>>
cfgVars   == <<cronValid, burnAfterBuyback, backoffMultiplier>>
queueVars == <<storeMode, items, nextId, files, now, lastEnqueue, failures, succeededOps>>

vars == <<cfgVars, schedVars, queueVars, backoffProbe>>

\* ------------------------------------------------------------- arithmetic
Min(a, b) == IF a <= b THEN a ELSE b

RECURSIVE Pow(_, _)
Pow(b, e) == IF e = 0 THEN 1 ELSE b * Pow(b, e - 1)

\* ------------------------------------------------------------ invocations
\* processed, succeeded and failed are the counters of the function running;
\* inserted counts the rows the store took from a processLocalFallbacks call (kept for
\* the properties, the code has no such counter)
Invocation(n, taskInfo, pc, fs, its) ==
  [name |-> n, taskInfo |-> taskInfo, pc |-> pc, files |-> fs, pendingItems |-> its,
   arg |-> 0, result |-> 0, processed |-> 0, succeeded |-> 0, failed |-> 0,
   inserted |-> 0]

InFlight == BagToSet(inv)

Put(r)     == inv (+) SetToBag({r})
Take(r)    == inv (-) SetToBag({r})
Move(r, q) == (inv (-) SetToBag({r})) (+) SetToBag({q})

\* a retry handler whose body starts at the select
FirstPcSkippingFallbacks(n) ==
  CASE n = "fee_collection" -> "collectAllFees"
    [] n = "buyback"        -> "shouldExecuteBuyback"
    [] n = "marketcap"      -> "updateAllMarketcaps"
    [] n = "discovery"      -> "discoverPlatformPools"
    [] n = "retry"          -> "getPendingRetries"

\* the first awaited call of each handler body
FirstPc(n) ==
  CASE n = "fee_collection" -> "collectAllFees"
    [] n = "buyback"        -> "shouldExecuteBuyback"
    [] n = "marketcap"      -> "updateAllMarketcaps"
    [] n = "discovery"      -> "discoverPlatformPools"
    [] n = "retry"          -> "readdir"

\* cron.validate of the expression startScheduler uses for job n
Validates(n) == IF n \in ConfiguredCrons THEN cronValid[n] ELSE TRUE

\* ---------------------------------------------------------------- handlers
NoLog == [src |-> "none", msg |-> "none", held |-> 0]

\* the guard without its early return
GuardNeverSkips(n) == FALSE

\* The single-flight guard at the head of every handler:
\*   if (taskInfo?.isRunning) { log.warn(...); return; }
GuardSkips(n) == tasks[n] # 0 /\ tasks[n] \in isRunning[n]

\* Entry of handler n up to its first await.
HandlerEntry(n) ==
  /\ IF GuardSkips(n)
       THEN /\ lastLog' = [src |-> n, msg |-> "already running, skipping", held |-> 0]
            /\ UNCHANGED <<inv, isRunning>>
       ELSE /\ BagCardinality(inv) < MaxInv
            /\ LET taskInfo == tasks[n] IN
                 /\ inv' = Put(Invocation(n, taskInfo, FirstPc(n), <<>>, <<>>))
                 /\ isRunning' = IF taskInfo # 0
                                   THEN [isRunning EXCEPT ![n] = @ \cup {taskInfo}]
                                   ELSE isRunning
            /\ lastLog' = NoLog
  /\ UNCHANGED <<cfgVars, tasks, cronJobs, starts, queueVars, backoffProbe>>

feeCollectionTask == HandlerEntry("fee_collection")
buybackTask       == HandlerEntry("buyback")
marketcapTask     == HandlerEntry("marketcap")
discoveryTask     == HandlerEntry("discovery")
retryTask         == HandlerEntry("retry")

Handler(n) ==
  CASE n = "fee_collection" -> feeCollectionTask
    [] n = "buyback"        -> buybackTask
    [] n = "marketcap"      -> marketcapTask
    [] n = "discovery"      -> discoveryTask
    [] n = "retry"          -> retryTask

\* A cron trigger of job n fires: node-cron calls the handler it was scheduled with.
CronTick(n) ==
  /\ cronJobs[n] # {}
  /\ Handler(n)

\* the names triggerTask is called with: the five tasks and a name that is none of them
TriggerNames == TaskNames \cup {"unknown"}

\* `throw new Error(`Unknown task: ${taskName}`)`: the promise of triggerTask rejects
UnknownTask == [src |-> "triggerTask", msg |-> "Unknown task", held |-> 0]

\* a triggerTask that runs the body of the task itself, past the handler's guard
triggerTaskUnguarded(n) ==
  IF n \in TaskNames
    THEN /\ BagCardinality(inv) < MaxInv
         /\ inv' = Put(Invocation(n, tasks[n], FirstPc(n), <<>>, <<>>))
         /\ isRunning' = IF tasks[n] # 0 THEN [isRunning EXCEPT ![n] = @ \cup {tasks[n]}]
                          ELSE isRunning
         /\ lastLog' = NoLog
         /\ UNCHANGED <<cfgVars, tasks, cronJobs, starts, queueVars, backoffProbe>>
    ELSE /\ lastLog' = UnknownTask
         /\ UNCHANGED <<cfgVars, tasks, isRunning, cronJobs, starts, inv, queueVars, backoffProbe>>

\* triggerTask(taskName): the switch awaits the handler of a valid name, the same
\* function cron.schedule was given; the default branch throws.
triggerTask(n) ==
  IF n \in TaskNames
    THEN Handler(n)
    ELSE /\ lastLog' = UnknownTask
         /\ UNCHANGED <<cfgVars, tasks, isRunning, cronJobs, starts, inv, queueVars, backoffProbe>>

\* the end of a handler whose flag reset sits after the try block, not in a finally
FinishWithoutFinally(r, err) ==
  /\ isRunning' = IF r.taskInfo # 0 /\ ~err
                    THEN [isRunning EXCEPT ![r.name] = @ \ {r.taskInfo}]
                    ELSE isRunning
  /\ lastLog' = IF err THEN [src |-> r.name, msg |-> "failed", held |-> r.taskInfo] ELSE NoLog
  /\ inv' = Take(r)

\* The end of a handler: the finally block resets the flag of the object the handler
\* holds and the promise resolves. `err` is TRUE when the catch block logged an error.
Finish(r, err) ==
  /\ isRunning' = IF r.taskInfo # 0
                    THEN [isRunning EXCEPT ![r.name] = @ \ {r.taskInfo}]
                    ELSE isRunning
  /\ lastLog' = IF err THEN [src |-> r.name, msg |-> "failed", held |-> r.taskInfo] ELSE NoLog
  /\ inv' = Take(r)

Goto(r, pc) ==
  /\ inv' = Move(r, [r EXCEPT !.pc = pc])
  /\ lastLog' = NoLog /\ UNCHANGED isRunning

\* An awaited call of the body rejects: control goes to the catch block.
AwaitThrows(r) ==
  /\ Finish(r, TRUE)
  /\ UNCHANGED <<cfgVars, tasks, cronJobs, starts, queueVars, backoffProbe>>

\* A task operation returned success=false for pool p: it logs the error and returns.
OperationFailed(op, p) == [src |-> op, msg |-> p, held |-> 0]

\* collectAllFees resolves: every active pool was claimed; a claim may have failed.
CollectAllFeesReturns(r) ==
  /\ r.pc = "collectAllFees"
  /\ inv' = Move(r, [r EXCEPT !.pc = "collectAllDammV2Fees"])
  /\ \/ lastLog' = NoLog
     \/ \E p \in Pools : lastLog' = OperationFailed("fee_claim", p)
  /\ UNCHANGED <<cfgVars, tasks, isRunning, cronJobs, starts, queueVars, backoffProbe>>

CollectAllDammV2FeesReturns(r) ==
  /\ r.pc = "collectAllDammV2Fees"
  /\ Finish(r, FALSE)
  /\ UNCHANGED <<cfgVars, tasks, cronJobs, starts, queueVars, backoffProbe>>

\* config.thresholds.minBuybackSol and config.thresholds.reserveSol, in tenths of a SOL
MinBuybackSol == 1
ReserveSol == 1

\* what getWalletBalance resolves to: one tenth below the amount that meets the
\* threshold, and that amount
WalletBalances == {ReserveSol + MinBuybackSol - 1, ReserveSol + MinBuybackSol}

\* shouldExecuteBuyback(): the balance above the reserve against the threshold
shouldExecuteBuyback(walletBalance) ==
  LET availableBalance == walletBalance - ReserveSol
  IN [shouldBuyback |-> availableBalance >= MinBuybackSol,
      balance |-> availableBalance,
      threshold |-> MinBuybackSol]

\* a handler that goes on to the buyback whatever the check answered
ShouldExecuteBuybackReturnsUnchecked(r) ==
  /\ r.pc = "shouldExecuteBuyback"
  /\ \E walletBalance \in WalletBalances :
       LET check == shouldExecuteBuyback(walletBalance)
       IN /\ inv' = Move(r, [r EXCEPT !.pc = "executeMultiBuyback", !.arg = check.balance])
          /\ lastLog' = NoLog /\ UNCHANGED isRunning
  /\ UNCHANGED <<cfgVars, tasks, cronJobs, starts, queueVars, backoffProbe>>

\* shouldExecuteBuyback resolves; below the threshold the handler returns from inside
\* the try. arg keeps the balance of the answer the handler destructured.
ShouldExecuteBuybackReturns(r) ==
  /\ r.pc = "shouldExecuteBuyback"
  /\ \E walletBalance \in WalletBalances :
       LET check == shouldExecuteBuyback(walletBalance)
       IN IF check.shouldBuyback
            THEN /\ inv' = Move(r, [r EXCEPT !.pc = "executeMultiBuyback",
                                             !.arg = check.balance])
                 /\ lastLog' = NoLog /\ UNCHANGED isRunning
            ELSE Finish(r, FALSE)
  /\ UNCHANGED <<cfgVars, tasks, cronJobs, starts, queueVars, backoffProbe>>

\* executeMultiBuyback resolves: success = some pool's swap succeeded; a swap may have
\* failed. result is 1 while the handler holds a result whose success is true.
ExecuteMultiBuybackReturns(r) ==
  /\ r.pc = "executeMultiBuyback"
  /\ \E success \in BOOLEAN, failed \in SUBSET Pools :
       /\ success => failed # Pools
       /\ IF success /\ burnAfterBuyback
            THEN /\ inv' = Move(r, [r EXCEPT !.pc = "burnAllTokens", !.result = 1])
                 /\ UNCHANGED isRunning
            ELSE /\ inv' = Take(r)
                 /\ isRunning' = IF r.taskInfo # 0
                                   THEN [isRunning EXCEPT ![r.name] = @ \ {r.taskInfo}]
                                   ELSE isRunning
       /\ IF failed = {}
            THEN lastLog' = NoLog
            ELSE \E p \in failed : lastLog' = OperationFailed("buyback", p)
  /\ UNCHANGED <<cfgVars, tasks, cronJobs, starts, queueVars, backoffProbe>>

BurnAllTokensReturns(r) ==
  /\ r.pc = "burnAllTokens"
  /\ inv' = Take(r)
  /\ isRunning' = IF r.taskInfo # 0
                    THEN [isRunning EXCEPT ![r.name] = @ \ {r.taskInfo}]
                    ELSE isRunning
  /\ \/ lastLog' = NoLog
     \/ \E p \in Pools : lastLog' = OperationFailed("burn", p)
  /\ UNCHANGED <<cfgVars, tasks, cronJobs, starts, queueVars, backoffProbe>>

UpdateAllMarketcapsReturns(r) ==
  /\ r.pc = "updateAllMarketcaps"
  /\ Finish(r, FALSE)
  /\ UNCHANGED <<cfgVars, tasks, cronJobs, starts, queueVars, backoffProbe>>

DiscoverPlatformPoolsReturns(r) ==
  /\ r.pc = "discoverPlatformPools"
  /\ Goto(r, "updateMigrationStatus")
  /\ UNCHANGED <<cfgVars, tasks, cronJobs, starts, queueVars, backoffProbe>>

UpdateMigrationStatusReturns(r) ==
  /\ r.pc = "updateMigrationStatus"
  /\ Finish(r, FALSE)
  /\ UNCHANGED <<cfgVars, tasks, cronJobs, starts, queueVars, backoffProbe>>

\* ------------------------------------------------------------- retry queue
Remove(f, x) == [k \in DOMAIN f \ {x} |-> f[k]]

\* a row whose next_retry_at is one millisecond after the insert
NewRowDueLater(a, maxRetries, t) ==
  [operation_type |-> a.operationType, pool_address |-> a.poolAddress, payload |-> a.payload,
   retry_count |-> 0, max_retries |-> maxRetries, last_error |-> NoError,
   last_attempt_at |-> NoTime, next_retry_at |-> t + 1, status |-> "pending",
   created_at |-> t, updated_at |-> t]

\* the row the store creates for an insert at time t (schema defaults included)
NewRow(a, maxRetries, t) ==
  [operation_type |-> a.operationType, pool_address |-> a.poolAddress, payload |-> a.payload,
   retry_count |-> 0, max_retries |-> maxRetries, last_error |-> NoError,
   last_attempt_at |-> NoTime, next_retry_at |-> t, status |-> "pending",
   created_at |-> t, updated_at |-> t]

\* the JSON body storeLocalFallback writes
FallbackRecord(a, t) ==
  [operationType |-> a.operationType, poolAddress |-> a.poolAddress, payload |-> a.payload,
   createdAt |-> t]

\* `${Date.now()}-${operationType}.json`
FallbackName(a, t) == <<t, a.operationType>>

\* storeLocalFallback on the directory content fs: writeFile creates or overwrites.
storeLocalFallback(fs, a) ==
  (FallbackName(a, now) :> FallbackRecord(a, now)) @@ fs

\* addToRetryQueue(a.operationType, a.poolAddress, a.payload, maxRetries), run on the
\* directory content fs. The result of insert is awaited and not looked at; only a
\* throw reaches the catch block and the local fallback.
addToRetryQueue(a, maxRetries, fs) ==
  CASE storeMode = "up" ->
         /\ items' = (nextId :> NewRow(a, maxRetries, now)) @@ items
         /\ failures' = (nextId :> 0) @@ failures
         /\ nextId' = nextId + 1
         /\ files' = fs
    [] storeMode = "error" ->
         /\ files' = fs
         /\ UNCHANGED <<items, failures, nextId>>
    [] storeMode = "throws" ->
         /\ files' = storeLocalFallback(fs, a)
         /\ UNCHANGED <<items, failures, nextId>>

\* A caller enqueues an operation, the k-th call of the behaviour at most.
EnqueueUpTo(k) ==
  /\ lastEnqueue.seq < k
  /\ \E a \in EnqueueArgs, m \in MaxRetriesArgs :
       /\ addToRetryQueue(a, m, files)
       /\ lastEnqueue' = [seq |-> lastEnqueue.seq + 1, args |-> a, maxRetries |-> m,
                          answer |-> storeMode, raised |-> FALSE]
  /\ UNCHANGED <<cfgVars, schedVars, storeMode, now, succeededOps, backoffProbe>>

Enqueue == EnqueueUpTo(MaxEnqueues)

\* all orders in which a set can be listed
Orders(S) ==
  {q \in [1..Cardinality(S) -> S] : \A i, j \in 1..Cardinality(S) : i # j => q[i] # q[j]}

\* processLocalFallbacks returns: processRetryQueue goes on with getPendingRetries; a
\* direct call of the exported function is over.
AfterFallbacks(r) ==
  IF r.name = "retry"
    THEN Move(r, [r EXCEPT !.files = <<>>, !.pc = "getPendingRetries",
                           !.processed = 0, !.inserted = 0])
    ELSE Take(r)

\* processLocalFallbacks() called on its own.
processLocalFallbacks ==
  /\ BagCardinality(inv) < MaxInv
  /\ inv' = Put(Invocation("processLocalFallbacks", 0, "readdir", <<>>, <<>>))
  /\ lastLog' = NoLog
  /\ UNCHANGED <<cfgVars, tasks, isRunning, cronJobs, starts, queueVars, backoffProbe>>

\* processLocalFallbacks: fs.readdir resolves with the names in the directory (a missing
\* directory rejects with ENOENT, which ends the function like an empty listing).
Readdir(r) ==
  /\ r.pc = "readdir"
  /\ \E q \in Orders(DOMAIN files) :
       inv' = IF q = <<>> THEN AfterFallbacks(r)
                          ELSE Move(r, [r EXCEPT !.files = q, !.pc = "fallback_file"])
  /\ lastLog' = NoLog
  /\ UNCHANGED <<cfgVars, tasks, isRunning, cronJobs, starts, queueVars, backoffProbe>>

\* processLocalFallbacks, one file: readFile, JSON.parse, addToRetryQueue with the
\* default maxRetries; the function then awaits unlink. A file that is gone makes
\* readFile reject with ENOENT, which ends the loop.
FallbackFile(r) ==
  /\ r.pc = "fallback_file"
  /\ LET f == Head(r.files) IN
       IF f \notin DOMAIN files
         THEN /\ inv' = AfterFallbacks(r)
              /\ UNCHANGED <<items, failures, nextId, files>>
         ELSE /\ addToRetryQueue(files[f], DefaultMaxRetries, files)
              /\ inv' = Move(r, [r EXCEPT !.pc = "unlink",
                                          !.inserted = IF storeMode = "up" THEN @ + 1
                                                                           ELSE @])
  /\ lastLog' = NoLog
  /\ UNCHANGED <<cfgVars, tasks, isRunning, cronJobs, starts, storeMode, now,
                 lastEnqueue, succeededOps, backoffProbe>>

\* processLocalFallbacks: fs.unlink of the file just re-submitted and processed++, then
\* the next file; after the last file the function returns its count.
Unlink(r) ==
  /\ r.pc = "unlink"
  /\ LET f == Head(r.files)
         rest == Tail(r.files)
     IN IF f \notin DOMAIN files
          THEN /\ inv' = AfterFallbacks(r)
               /\ UNCHANGED files
          ELSE /\ files' = Remove(files, f)
               /\ inv' = IF rest = <<>> THEN AfterFallbacks(r)
                          ELSE Move(r, [r EXCEPT !.files = rest, !.pc = "fallback_file",
                                                 !.processed = @ + 1])
  /\ lastLog' = NoLog
  /\ UNCHANGED <<cfgVars, tasks, isRunning, cronJobs, starts, storeMode, items,
                 nextId, now, lastEnqueue, failures, succeededOps, backoffProbe>>

\* the fields of a fetched row that processRetryItem reads
Fetched(id) ==
  [id |-> id, operation_type |-> items[id].operation_type,
   pool_address |-> items[id].pool_address, payload |-> items[id].payload,
   retry_count |-> items[id].retry_count, max_retries |-> items[id].max_retries]

\* the select without its status filter
DueOfAnyStatus == {id \in DOMAIN items : items[id].next_retry_at <= now}

\* the select without its next_retry_at filter
DueAtAnyTime == {id \in DOMAIN items : items[id].status = "pending"}

\* the ids the select of getPendingRetries matches
Due == {id \in DOMAIN items : items[id].status = "pending" /\ items[id].next_retry_at <= now}

RECURSIVE OldestFirst(_)
\* the listings of the rows S by created_at ascending (rows of equal created_at in
\* either order)
OldestFirst(S) ==
  IF S = {} THEN {<<>>}
  ELSE UNION {{<<x>> \o o : o \in OldestFirst(S \ {x})} :
                x \in {y \in S : \A z \in S : items[y].created_at <= items[z].created_at}}

\* the results the select may return: ordered by created_at, at most FetchLimit rows
PendingRetries == {SubSeq(q, 1, Min(Len(q), FetchLimit)) : q \in OldestFirst(Due)}

\* getPendingRetries() called on its own.
getPendingRetries ==
  /\ BagCardinality(inv) < MaxInv
  /\ inv' = Put(Invocation("getPendingRetries", 0, "getPendingRetries", <<>>, <<>>))
  /\ lastLog' = NoLog
  /\ UNCHANGED <<cfgVars, tasks, isRunning, cronJobs, starts, queueVars, backoffProbe>>

\* getPendingRetries has returned rows q: processRetryQueue enters its loop; a direct
\* caller holds the list.
AfterFetch(r, q) ==
  IF r.name = "retry"
    THEN [r EXCEPT !.pendingItems = q,
                   !.pc = IF q = <<>> THEN "cleanupRetryQueue" ELSE "mark"]
    ELSE [r EXCEPT !.pendingItems = q, !.pc = "returned"]

\* A call made outside the handlers rejects: no catch block, the caller gets the error.
Rejects(r) ==
  /\ inv' = Take(r)
  /\ lastLog' = [src |-> r.name, msg |-> "rejected", held |-> 0]
  /\ UNCHANGED isRunning

\* getPendingRetries resolves: the rows of the select, [] when the select reports an
\* error; getSupabaseUntyped throwing is not caught here.
GetPendingRetries(r) ==
  /\ r.pc = "getPendingRetries"
  /\ CASE storeMode = "throws" -> IF r.name = "retry" THEN Finish(r, TRUE) ELSE Rejects(r)
       [] storeMode = "error"  ->
            /\ inv' = Move(r, AfterFetch(r, <<>>))
            /\ lastLog' = NoLog /\ UNCHANGED isRunning
       [] storeMode = "up" ->
            /\ \E q \in PendingRetries :
                 inv' = Move(r, AfterFetch(r, [i \in 1..Len(q) |-> Fetched(q[i])]))
            /\ lastLog' = NoLog /\ UNCHANGED isRunning
  /\ UNCHANGED <<cfgVars, tasks, cronJobs, starts, queueVars, backoffProbe>>

\* The caller of a direct call goes on with the value it was given.
Returned(r) ==
  /\ r.pc = "returned"
  /\ inv' = Take(r)
  /\ lastLog' = NoLog
  /\ UNCHANGED <<cfgVars, tasks, isRunning, cronJobs, starts, queueVars, backoffProbe>>

\* an update(...).eq('id', id) as the store applies it
Update(id, row) ==
  IF storeMode = "up" /\ id \in DOMAIN items
    THEN items' = [items EXCEPT ![id] = row]
    ELSE UNCHANGED items

\* processRetryQueue counts the row (result.processed++) and calls processRetryItem,
\* whose first await marks the row processing.
MarkProcessing(r) ==
  /\ r.pc = "mark"
  /\ LET item == Head(r.pendingItems) IN
       IF storeMode = "throws"
         THEN /\ Finish(r, TRUE)
              /\ UNCHANGED items
         ELSE /\ Update(item.id, [items[item.id] EXCEPT !.status = "processing",
                                                        !.last_attempt_at = now])
              /\ inv' = Move(r, [r EXCEPT !.pc = "operation", !.processed = @ + 1])
              /\ lastLog' = NoLog /\ UNCHANGED isRunning
  /\ UNCHANGED <<cfgVars, tasks, cronJobs, starts, storeMode, nextId, files, now,
                 lastEnqueue, failures, succeededOps, backoffProbe>>

\* the backoff with the configured multiplier as its base
calculateNextRetryTimeConfigured(retryCount) ==
  now + 1000 * Min(RETRY_BACKOFF_BASE_SECONDS * Pow(backoffMultiplier, retryCount),
                   MAX_RETRY_BACKOFF_SECONDS)

\* calculateNextRetryTime(retryCount), in ms
calculateNextRetryTime(retryCount) ==
  LET backoffSeconds == Min(RETRY_BACKOFF_BASE_SECONDS * Pow(2, retryCount),
                            MAX_RETRY_BACKOFF_SECONDS)
  IN now + backoffSeconds * 1000

\* what an operation found on chain: the claimable fees of the pool or the wallet's
\* balance of the pool's token, and whether the transaction it then sent was confirmed
Amounts == {0, 1}

OperationLog(op, msg) == [src |-> op, msg |-> msg, held |-> 0]

\* claimFeesFromPool(pool), claimable being what getClaimableFees answers
claimFeesFromPool(claimable, confirmed) ==
  IF claimable <= 0
    THEN [success |-> TRUE, amount |-> 0,
          log |-> OperationLog("claimFeesFromPool", "No fees to claim")]
  ELSE IF confirmed
    THEN [success |-> TRUE, amount |-> claimable,
          log |-> OperationLog("claimFeesFromPool", "Fees claimed successfully")]
  ELSE [success |-> FALSE, amount |-> 0,
        log |-> OperationLog("claimFeesFromPool", "Failed to claim fees")]

\* burnTokensForPool(pool), balance being what getTokenBalance answers
burnTokensForPool(balance, confirmed) ==
  IF balance <= 0
    THEN [success |-> FALSE, amount |-> 0,
          log |-> OperationLog("burnTokensForPool", "No tokens to burn for this pool")]
  ELSE IF confirmed
    THEN [success |-> TRUE, amount |-> balance,
          log |-> OperationLog("burnTokensForPool", "Tokens burned successfully for pool")]
  ELSE [success |-> FALSE, amount |-> balance,
        log |-> OperationLog("burnTokensForPool", "Token burn failed for pool")]

\* the switch of processRetryItem on a result of the operation it dispatched
Attempt(result) ==
  [outcome |-> IF result.success THEN "success" ELSE "unsuccessful", log |-> result.log]

\* a switch that dispatches the operation whatever the pool address resolves to
AttemptsWithoutResolution(item) ==
  LET quiet(o) == [outcome |-> o, log |-> [src |-> "none", msg |-> "none", held |-> 0]] IN
    IF item.operation_type = "register" THEN {quiet("success"), quiet("throws")}
    ELSE {quiet("unsuccessful"), quiet("throws")} \cup
         CASE item.operation_type = "fee_claim" ->
                {Attempt(claimFeesFromPool(c, k)) : c \in Amounts, k \in BOOLEAN}
           [] item.operation_type = "burn" ->
                {Attempt(burnTokensForPool(b, k)) : b \in Amounts, k \in BOOLEAN}
           [] OTHER -> {quiet("success")}

\* what the try block of processRetryItem can come to for a fetched row: registerPool
\* returns or throws; the other operations run only with a pool address whose pool
\* getPoolByAddress finds (it answers null for an address not registered, and may
\* throw), and the operation may throw
Attempts(item) ==
  LET quiet(o) == [outcome |-> o, log |-> [src |-> "none", msg |-> "none", held |-> 0]] IN
    IF item.operation_type = "register" THEN {quiet("success"), quiet("throws")}
    ELSE IF item.pool_address = NoPool THEN {quiet("unsuccessful")}
    ELSE IF item.pool_address \notin Pools THEN {quiet("unsuccessful"), quiet("throws")}
    ELSE {quiet("unsuccessful"), quiet("throws")} \cup
         CASE item.operation_type = "fee_claim" ->
                {Attempt(claimFeesFromPool(c, k)) : c \in Amounts, k \in BOOLEAN}
           [] item.operation_type = "burn" ->
                {Attempt(burnTokensForPool(b, k)) : b \in Amounts, k \in BOOLEAN}
           [] OTHER -> {quiet("success")}

ErrorMessage(outcome) ==
  IF outcome = "throws" THEN "thrown" ELSE "Operation returned unsuccessful"

\* a catch block whose update also writes an empty payload
FailureRowDroppingPayload(item, row, errorMessage) ==
  LET newRetryCount == item.retry_count + 1 IN
    IF newRetryCount >= item.max_retries
      THEN [row EXCEPT !.status = "failed", !.retry_count = newRetryCount,
                       !.last_error = errorMessage, !.updated_at = now,
                       !.payload = "empty"]
      ELSE [row EXCEPT !.status = "pending", !.retry_count = newRetryCount,
                       !.last_error = errorMessage,
                       !.next_retry_at = calculateNextRetryTime(newRetryCount),
                       !.updated_at = now, !.payload = "empty"]

\* a catch block that reschedules whatever the retry count
FailureRowWithoutCeiling(item, row, errorMessage) ==
  LET newRetryCount == item.retry_count + 1 IN
    [row EXCEPT !.status = "pending", !.retry_count = newRetryCount,
                !.last_error = errorMessage,
                !.next_retry_at = calculateNextRetryTime(newRetryCount),
                !.updated_at = now]

\* a catch block that gives up only above max_retries
FailureRowAboveCeiling(item, row, errorMessage) ==
  LET newRetryCount == item.retry_count + 1 IN
    IF newRetryCount > item.max_retries
      THEN [row EXCEPT !.status = "failed", !.retry_count = newRetryCount,
                       !.last_error = errorMessage, !.updated_at = now]
      ELSE [row EXCEPT !.status = "pending", !.retry_count = newRetryCount,
                       !.last_error = errorMessage,
                       !.next_retry_at = calculateNextRetryTime(newRetryCount),
                       !.updated_at = now]

\* the row the catch block of processRetryItem writes
FailureRow(item, row, errorMessage) ==
  LET newRetryCount == item.retry_count + 1 IN
    IF newRetryCount >= item.max_retries
      THEN [row EXCEPT !.status = "failed", !.retry_count = newRetryCount,
                       !.last_error = errorMessage, !.updated_at = now]
      ELSE [row EXCEPT !.status = "pending", !.retry_count = newRetryCount,
                       !.last_error = errorMessage,
                       !.next_retry_at = calculateNextRetryTime(newRetryCount),
                       !.updated_at = now]

\* processRetryItem, the dispatched operation resolves and the result is written;
\* processRetryQueue then waits 1s and goes on with the next fetched row.
OperationReturns(r) ==
  /\ r.pc = "operation"
  /\ LET item == Head(r.pendingItems)
         rest == Tail(r.pendingItems)
         next == [r EXCEPT !.pendingItems = rest,
                           !.pc = IF rest = <<>> THEN "cleanupRetryQueue" ELSE "mark"]
     IN \E a \in Attempts(item) :
          /\ succeededOps' = IF a.outcome = "success" THEN succeededOps \cup {item.id}
                                                      ELSE succeededOps
          /\ IF a.outcome = "success" /\ storeMode # "throws"
               THEN /\ Update(item.id, [items[item.id] EXCEPT !.status = "completed",
                                                              !.updated_at = now])
                    /\ inv' = Move(r, [next EXCEPT !.succeeded = @ + 1])
                    /\ lastLog' = a.log /\ UNCHANGED <<failures, isRunning>>
               ELSE /\ failures[item.id] < MaxFailures
                    /\ failures' = [failures EXCEPT ![item.id] = @ + 1]
                    /\ IF storeMode = "throws"
                         THEN /\ Finish(r, TRUE)
                              /\ UNCHANGED items
                         ELSE /\ Update(item.id, FailureRow(item, items[item.id],
                                                            ErrorMessage(a.outcome)))
                              /\ inv' = Move(r, [next EXCEPT !.failed = @ + 1])
                              /\ lastLog' = a.log /\ UNCHANGED isRunning
  /\ UNCHANGED <<cfgVars, tasks, cronJobs, starts, storeMode, nextId, files, now,
                 lastEnqueue, backoffProbe>>

\* cleanupRetryQueue(olderThanDays) called on its own.
cleanupRetryQueue(olderThanDays) ==
  /\ BagCardinality(inv) < MaxInv
  /\ inv' = Put([Invocation("cleanupRetryQueue", 0, "cleanupRetryQueue", <<>>, <<>>)
                   EXCEPT !.arg = olderThanDays])
  /\ lastLog' = NoLog
  /\ UNCHANGED <<cfgVars, tasks, isRunning, cronJobs, starts, queueVars, backoffProbe>>

\* a delete that matches on updated_at alone
DeletedOfAnyStatus(cutoffDate) == {id \in DOMAIN items : items[id].updated_at < cutoffDate}

\* the rows the delete of cleanupRetryQueue matches
Deleted(cutoffDate) ==
  {id \in DOMAIN items : /\ items[id].status \in {"completed", "failed"}
                          /\ items[id].updated_at < cutoffDate}

\* cleanupRetryQueue resolves: retryTask calls it with 7 and ends; a direct caller is
\* given the number of rows deleted, 0 when the delete reports an error.
CleanupRetryQueue(r) ==
  /\ r.pc = "cleanupRetryQueue"
  /\ LET olderThanDays == IF r.name = "retry" THEN CleanupDays ELSE r.arg
         cutoffDate == now - olderThanDays * DayMs
         deleted == Deleted(cutoffDate)
     IN IF r.name = "retry"
          THEN CASE storeMode = "throws" -> Finish(r, TRUE) /\ UNCHANGED items
                 [] storeMode = "error"  -> Finish(r, FALSE) /\ UNCHANGED items
                 [] storeMode = "up" ->
                      /\ items' = [id \in DOMAIN items \ deleted |-> items[id]]
                      /\ Finish(r, FALSE)
          ELSE CASE storeMode = "throws" -> Rejects(r) /\ UNCHANGED items
                 [] storeMode = "error"  ->
                      /\ inv' = Move(r, [r EXCEPT !.pc = "returned", !.result = 0])
                      /\ lastLog' = NoLog /\ UNCHANGED <<isRunning, items>>
                 [] storeMode = "up" ->
                      /\ items' = [id \in DOMAIN items \ deleted |-> items[id]]
                      /\ inv' = Move(r, [r EXCEPT !.pc = "returned",
                                                  !.result = Cardinality(deleted)])
                      /\ lastLog' = NoLog /\ UNCHANGED isRunning
  /\ UNCHANGED <<cfgVars, tasks, cronJobs, starts, storeMode, nextId, files, now,
                 lastEnqueue, failures, succeededOps, backoffProbe>>

\* ------------------------------------------------------------- environment
\* The store becomes reachable or unreachable.
StoreChanges ==
  /\ \E m \in {"up", "error", "throws"} : m # storeMode /\ storeMode' = m
  /\ UNCHANGED <<cfgVars, schedVars, items, nextId, files, now, lastEnqueue, failures,
                 succeededOps, backoffProbe>>

\* Time passes: d ms, at most maxTicks steps of this size.
AdvanceClock(d, bigger, maxTicks) ==
  /\ (now % bigger) \div d < maxTicks
  /\ now' = now + d
  /\ UNCHANGED <<cfgVars, schedVars, storeMode, items, nextId, files, lastEnqueue,
                 failures, succeededOps, backoffProbe>>

MsPasses   == AdvanceClock(1, HourMs, MaxMsTicks)
HourPasses == AdvanceClock(HourMs, CleanupDays * DayMs, MaxHours)
\* an hour passes between two runs of the handlers
IdleHourPasses == inv = EmptyBag /\ HourPasses

\* --------------------------------------------------------------- lifecycle
\* the error lines of one startScheduler call: the else branches of the fee collection
\* and buyback jobs (the marketcap and discovery jobs have none)
InvalidCronLines ==
  LET fee == ~Validates("fee_collection")
      buy == ~Validates("buyback")
  IN IF fee /\ buy
       THEN "Invalid fee collection cron expression; Invalid buyback cron expression"
     ELSE IF fee THEN "Invalid fee collection cron expression"
     ELSE IF buy THEN "Invalid buyback cron expression"
     ELSE "none"

\* startScheduler: for every job whose expression validates, cron.schedule creates a
\* new trigger and tasks.set stores a new ScheduledTask {task, isRunning: false}.
startScheduler ==
  /\ starts < MaxStarts
  /\ starts' = starts + 1
  /\ LET g == starts + 1 IN
       /\ cronJobs' = [n \in TaskNames |->
                         IF Validates(n) THEN cronJobs[n] \cup {g} ELSE cronJobs[n]]
       /\ tasks' = [n \in TaskNames |-> IF Validates(n) THEN g ELSE tasks[n]]
  /\ lastLog' = IF InvalidCronLines = "none" THEN NoLog
                ELSE [src |-> "startScheduler", msg |-> InvalidCronLines, held |-> 0]
  /\ UNCHANGED <<cfgVars, isRunning, inv, queueVars, backoffProbe>>

\* stopScheduler: stops the trigger of every entry of the registry, then clears it.
stopScheduler ==
  /\ cronJobs' = [n \in TaskNames |-> cronJobs[n] \ {tasks[n]}]
  /\ tasks' = [n \in TaskNames |-> 0]
  /\ lastLog' = NoLog
  /\ UNCHANGED <<cfgVars, isRunning, starts, inv, queueVars, backoffProbe>>

\* getSchedulerStatus(): one {name, isRunning} for every entry of the registry
getSchedulerStatus ==
  {[name |-> n, isRunning |-> tasks[n] \in isRunning[n]] : n \in {m \in TaskNames : tasks[m] # 0}}

\* ------------------------------------------------------------------- specs
SchedInit ==
  /\ tasks = [n \in TaskNames |-> 0]
  /\ isRunning = [n \in TaskNames |-> {}]
  /\ cronJobs = [n \in TaskNames |-> {}]
  /\ starts = 0
  /\ inv = EmptyBag
  /\ lastLog = NoLog

QueueInit ==
  /\ storeMode = "up"
  /\ items = <<>>
  /\ nextId = 1
  /\ files = <<>>
  /\ now = 0
  /\ lastEnqueue = [seq |-> 0, args |-> [operationType |-> "none", poolAddress |-> NoPool,
                                         payload |-> "none"],
                    maxRetries |-> 0, answer |-> "none", raised |-> FALSE]
  /\ failures = <<>>
  /\ succeededOps = {}
  /\ backoffProbe = [retryCount |-> -1, at |-> 0, nextRetryAt |-> 0]

Init ==
  /\ \E c \in Configs : cronValid = c.cronValid /\ burnAfterBuyback = c.burnAfterBuyback
  /\ backoffMultiplier = 2
  /\ SchedInit
  /\ QueueInit

Next ==
  \/ startScheduler
  \/ stopScheduler
  \/ \E n \in TaskNames : CronTick(n)
  \/ \E n \in TaskNames : triggerTask(n)
  \/ \E r \in InFlight : AwaitThrows(r)
  \/ \E r \in InFlight : CollectAllFeesReturns(r)
  \/ \E r \in InFlight : CollectAllDammV2FeesReturns(r)
  \/ \E r \in InFlight : ShouldExecuteBuybackReturns(r)
  \/ \E r \in InFlight : ExecuteMultiBuybackReturns(r)
  \/ \E r \in InFlight : BurnAllTokensReturns(r)
  \/ \E r \in InFlight : UpdateAllMarketcapsReturns(r)
  \/ \E r \in InFlight : DiscoverPlatformPoolsReturns(r)
  \/ \E r \in InFlight : UpdateMigrationStatusReturns(r)
  \/ \E r \in InFlight : Readdir(r)
  \/ \E r \in InFlight : GetPendingRetries(r)
  \/ \E r \in InFlight : CleanupRetryQueue(r)

Spec == Init /\ [][Next]_vars

\* the steps in which an awaited call of a handler in flight resolves or rejects
HandlerSteps ==
  \/ \E r \in InFlight : AwaitThrows(r)
  \/ \E r \in InFlight : CollectAllFeesReturns(r)
  \/ \E r \in InFlight : CollectAllDammV2FeesReturns(r)
  \/ \E r \in InFlight : ShouldExecuteBuybackReturns(r)
  \/ \E r \in InFlight : ExecuteMultiBuybackReturns(r)
  \/ \E r \in InFlight : BurnAllTokensReturns(r)
  \/ \E r \in InFlight : UpdateAllMarketcapsReturns(r)
  \/ \E r \in InFlight : DiscoverPlatformPoolsReturns(r)
  \/ \E r \in InFlight : UpdateMigrationStatusReturns(r)
  \/ \E r \in InFlight : Readdir(r)
  \/ \E r \in InFlight : GetPendingRetries(r)
  \/ \E r \in InFlight : CleanupRetryQueue(r)

\* The scheduler under every combination of valid and invalid configured expressions.
StartInit ==
  /\ cronValid \in [ConfiguredCrons -> BOOLEAN]
  /\ burnAfterBuyback = TRUE
  /\ backoffMultiplier = 2
  /\ SchedInit
  /\ QueueInit

SpecStart == StartInit /\ [][Next]_vars

\* The retry handler with the retry queue, the store and the clock.
RetryInit ==
  /\ cronValid = [n \in ConfiguredCrons |-> TRUE]
  /\ burnAfterBuyback = TRUE
  /\ backoffMultiplier = 2
  /\ SchedInit
  /\ QueueInit

\* the steps of processRetryQueue while the fallback directory is empty
RetryBody ==
  \/ \E r \in InFlight : Readdir(r)
  \/ \E r \in InFlight : GetPendingRetries(r)
  \/ \E r \in InFlight : MarkProcessing(r)
  \/ \E r \in InFlight : OperationReturns(r)
  \/ \E r \in InFlight : CleanupRetryQueue(r)

\* The service as index.ts runs it: startScheduler was called once, the store answers.
ServiceInit ==
  /\ cronValid = [n \in ConfiguredCrons |-> TRUE]
  /\ burnAfterBuyback = TRUE
  /\ backoffMultiplier = 2
  /\ tasks = [n \in TaskNames |-> 1]
  /\ isRunning = [n \in TaskNames |-> {}]
  /\ cronJobs = [n \in TaskNames |-> {1}]
  /\ starts = 1
  /\ inv = EmptyBag
  /\ lastLog = NoLog
  /\ QueueInit

ServiceNext ==
  \/ CronTick("retry")
  \/ triggerTask("retry")
  \/ Enqueue
  \/ IdleHourPasses
  \/ RetryBody

SpecService == ServiceInit /\ [][ServiceNext]_vars

\* Manual triggers only, of every name, on a service started once.
TriggerNext ==
  \/ \E n \in TriggerNames : triggerTask(n)
  \/ HandlerSteps

SpecTrigger == ServiceInit /\ [][TriggerNext]_vars

\* The buyback task alone, under the three configurations, from a scheduler not yet
\* started.
BuybackNext ==
  \/ startScheduler
  \/ stopScheduler
  \/ CronTick("buyback")
  \/ triggerTask("buyback")
  \/ \E r \in InFlight : AwaitThrows(r)
  \/ \E r \in InFlight : ShouldExecuteBuybackReturns(r)
  \/ \E r \in InFlight : ExecuteMultiBuybackReturns(r)
  \/ \E r \in InFlight : BurnAllTokensReturns(r)

SpecBuyback == Init /\ [][BuybackNext]_vars

\* Enqueue and processLocalFallbacks while the store comes and goes.
OutageNext ==
  \/ Enqueue
  \/ processLocalFallbacks
  \/ StoreChanges
  \/ MsPasses
  \/ \E r \in InFlight : Readdir(r)
  \/ \E r \in InFlight : FallbackFile(r)
  \/ \E r \in InFlight : Unlink(r)

SpecOutage == ServiceInit /\ [][OutageNext]_vars

\* Callers enqueue in a burst, several calls within one millisecond included, while the
\* store comes and goes.
BurstNext ==
  \/ EnqueueUpTo(MaxBurst)
  \/ StoreChanges
  \/ MsPasses

SpecBurst == ServiceInit /\ [][BurstNext]_vars

\* The retry handler under every use of the scheduler's exported functions.
RaceNext ==
  \/ startScheduler
  \/ stopScheduler
  \/ CronTick("retry")
  \/ triggerTask("retry")
  \/ Enqueue
  \/ RetryBody

SpecRace == RetryInit /\ [][RaceNext]_vars

\* Overlapping drain cycles while time passes: triggerTask('retry') with no registry
\* entry, so that no flag is read or set.
OverlapNext ==
  \/ triggerTask("retry")
  \/ Enqueue
  \/ HourPasses
  \/ RetryBody

SpecOverlap == RetryInit /\ [][OverlapNext]_vars

\* the kinds of row that the select must leave out: pending with next_retry_at just
\* after now, and the three other statuses
RowKinds == <<"later", "processing", "completed", "failed">>

\* row i of a drawn table; created_at is scrambled against the order of the ids, and a
\* due row has next_retry_at = now on even ids, its creation time on odd ones
TableRow(i, kind, t) ==
  [operation_type |-> "fee_claim", pool_address |-> "poolA", payload |-> "empty",
   retry_count |-> 0, max_retries |-> DefaultMaxRetries, last_error |-> NoError,
   last_attempt_at |-> NoTime,
   next_retry_at |-> IF kind = "later" THEN t + 1
                     ELSE IF i % 2 = 0 THEN t ELSE (i * 5) % (MaxRows + 1),
   status |-> IF kind \in {"due", "later"} THEN "pending" ELSE kind,
   created_at |-> (i * 5) % (MaxRows + 1), updated_at |-> (i * 5) % (MaxRows + 1)]

\* the retry_queue tables the select is run on: up to MaxRows rows, all pending and due
\* but at most MaxOdd of them, whose kinds go round RowKinds from a chosen start
Tables(t) ==
  {[i \in 1..n |->
      IF i \in odd
        THEN TableRow(i, RowKinds[((k + Cardinality({j \in odd : j < i})) % Len(RowKinds)) + 1], t)
        ELSE TableRow(i, "due", t)] :
     n \in 0..MaxRows, odd \in {o \in SUBSET (1..MaxRows) : Cardinality(o) <= MaxOdd},
     k \in 1..Len(RowKinds)}

\* getPendingRetries on its own, on every such table.
FetchInit ==
  /\ cronValid = [n \in ConfiguredCrons |-> TRUE]
  /\ burnAfterBuyback = TRUE
  /\ backoffMultiplier = 2
  /\ SchedInit
  /\ storeMode = "up"
  /\ now = HourMs
  /\ items \in Tables(HourMs)
  /\ nextId = Len(items) + 1
  /\ failures = [id \in DOMAIN items |-> 0]
  /\ succeededOps = {}
  /\ files = <<>>
  /\ lastEnqueue = [seq |-> 0, args |-> [operationType |-> "none", poolAddress |-> NoPool,
                                         payload |-> "none"],
                    maxRetries |-> 0, answer |-> "none", raised |-> FALSE]
  /\ backoffProbe = [retryCount |-> -1, at |-> 0, nextRetryAt |-> 0]

FetchNext ==
  \/ getPendingRetries
  \/ StoreChanges
  \/ \E r \in InFlight : GetPendingRetries(r)
  \/ \E r \in InFlight : Returned(r)

SpecFetch == FetchInit /\ [][FetchNext]_vars

\* the fallback directories a drain finds: empty, or up to MaxIdle records left by
\* addToRetryQueue calls made before time t while the store was away
FallbackDirs(t) ==
  {[f \in {FallbackName(a, t - 1) : a \in A} |->
      FallbackRecord(CHOOSE a \in A : FallbackName(a, t - 1) = f, t - 1)] :
     A \in {B \in SUBSET EnqueueArgs : Cardinality(B) <= MaxIdle}}

\* the tables a drain with nothing to do finds: up to MaxIdle rows, none pending and due
IdleTables(t) ==
  {[i \in 1..n |-> TableRow(i, RowKinds[((k + i) % Len(RowKinds)) + 1], t)] :
     n \in 0..MaxIdle, k \in 1..Len(RowKinds)}

\* A started service at time t, its table drawn from T and its fallback directory from D.
StartedWith(T, D, t) ==
  /\ cronValid = [n \in ConfiguredCrons |-> TRUE]
  /\ burnAfterBuyback = TRUE
  /\ backoffMultiplier = 2
  /\ tasks = [n \in TaskNames |-> 1]
  /\ isRunning = [n \in TaskNames |-> {}]
  /\ cronJobs = [n \in TaskNames |-> {1}]
  /\ starts = 1
  /\ inv = EmptyBag
  /\ lastLog = NoLog
  /\ storeMode = "up"
  /\ now = t
  /\ items \in T
  /\ nextId = Len(items) + 1
  /\ failures = [id \in DOMAIN items |-> 0]
  /\ succeededOps = {}
  /\ files \in D
  /\ lastEnqueue = [seq |-> 0, args |-> [operationType |-> "none", poolAddress |-> NoPool,
                                         payload |-> "none"],
                    maxRetries |-> 0, answer |-> "none", raised |-> FALSE]
  /\ backoffProbe = [retryCount |-> -1, at |-> 0, nextRetryAt |-> 0]

\* processRetryQueue through the retry handler of a started service, called only
\* while no row is pending and due.
IdleInit == StartedWith(IdleTables(HourMs), FallbackDirs(HourMs), HourMs)

\* the steps of processLocalFallbacks over the files it listed
FallbackBody ==
  \/ \E r \in InFlight : FallbackFile(r)
  \/ \E r \in InFlight : Unlink(r)

\* the table holds no row that is pending and due
NothingDue ==
  ~ \E id \in DOMAIN items : items[id].status = "pending" /\ items[id].next_retry_at <= now

IdleNext ==
  \/ NothingDue /\ CronTick("retry")
  \/ StoreChanges
  \/ FallbackBody
  \/ RetryBody

SpecIdle == IdleInit /\ [][IdleNext]_vars

\* the tables a drain works through: up to MaxBatch pending rows, due or not yet due,
\* burns and fee claims in turn
BatchTables(t) ==
  {[i \in 1..n |-> [TableRow(i, IF i \in later THEN "later" ELSE "due", t)
                       EXCEPT !.operation_type = IF i % 2 = 0 THEN "fee_claim" ELSE "burn"]] :
     n \in 0..MaxBatch, later \in SUBSET (1..MaxBatch)}

\* The retry handler of a started service draining such a table while the store comes
\* and goes.
BatchInit == StartedWith(BatchTables(HourMs), {<<>>}, HourMs)

BatchNext ==
  \/ CronTick("retry")
  \/ StoreChanges
  \/ RetryBody

SpecBatch == BatchInit /\ [][BatchNext]_vars

\* one row more than a select of getPendingRetries returns
LiveRows == FetchLimit + 1

\* the tables of LiveRows rows as addToRetryQueue inserted them one millisecond apart:
\* fee claims without a pool address, and as the first or the last row a burn for poolA
\* with either max_retries
LiveTables ==
  {[i \in 1..LiveRows |->
      IF i = k
        THEN NewRow([operationType |-> "burn", poolAddress |-> "poolA", payload |-> "empty"],
                    m, i)
        ELSE NewRow([operationType |-> "fee_claim", poolAddress |-> NoPool,
                     payload |-> "empty"], DefaultMaxRetries, i)] :
     k \in {1, LiveRows}, m \in MaxRetriesArgs}

\* A started service whose table holds more due rows than one select returns.
LiveInit == StartedWith(LiveTables, {<<>>}, HourMs)

\* An hour passes between two drains once the drains have left nothing due
\* (the cron expression of the retry job is '*/5 * * * *').
LiveHourPasses ==
  /\ inv = EmptyBag
  /\ NothingDue
  /\ AdvanceClock(HourMs, CleanupDays * DayMs, DefaultMaxRetries)

LiveNext ==
  \/ CronTick("retry")
  \/ LiveHourPasses
  \/ RetryBody

\* The drain cycle keeps firing, every awaited call of the drain returns, time passes;
\* the store answers throughout.
SpecLive ==
  /\ LiveInit
  /\ [][LiveNext]_vars
  /\ WF_vars(CronTick("retry"))
  /\ WF_vars(RetryBody)
  /\ SF_vars(LiveHourPasses)

\* the tables a whole drain cycle starts from: up to MaxBatch + 1 due rows, created in
\* another order than their ids
CycleTables(t) == {[i \in 1..n |-> TableRow(i, "due", t)] : n \in 0..(MaxBatch + 1)}

\* A started service whose drain cycle finds fallback files and due rows, the store
\* answering.
CycleInit == StartedWith(CycleTables(HourMs), FallbackDirs(HourMs), HourMs)

CycleNext ==
  \/ CronTick("retry")
  \/ FallbackBody
  \/ RetryBody

SpecCycle == CycleInit /\ [][CycleNext]_vars

\* a pool address that flywheel_pools holds no record for
UnknownPool == "poolGone"

\* the tables of one due row: each operation that needs a pool, with no pool address,
\* the address of a registered pool or an address not registered, and either max_retries
ResolveTables ==
  {<<NewRow([operationType |-> op, poolAddress |-> p, payload |-> "empty"], m, 5)>> :
     op \in {"fee_claim", "buyback", "burn"}, p \in {NoPool, UnknownPool} \cup Pools,
     m \in MaxRetriesArgs}

\* A started service draining such a table, the store answering.
ResolveInit == StartedWith(ResolveTables, {<<>>}, HourMs)

ResolveNext ==
  \/ CronTick("retry")
  \/ LiveHourPasses
  \/ RetryBody

SpecResolve == ResolveInit /\ [][ResolveNext]_vars

\* the tables addToRetryQueue left before the hour: no row, or one row fewer than a
\* select returns, or as many, inserted one millisecond apart and not yet attempted
BacklogTables ==
  {[i \in 1..n |->
      NewRow([operationType |-> "fee_claim", poolAddress |-> NoPool, payload |-> "empty"],
             DefaultMaxRetries, i)] :
     n \in {0, FetchLimit - 1, FetchLimit}}

\* Callers enqueue on such a table and call getPendingRetries, while the store comes
\* and goes.
NewItemInit == StartedWith(BacklogTables, {<<>>}, HourMs)

NewItemNext ==
  \/ Enqueue
  \/ getPendingRetries
  \/ StoreChanges
  \/ MsPasses
  \/ \E r \in InFlight : GetPendingRetries(r)
  \/ \E r \in InFlight : Returned(r)

SpecNewItem == NewItemInit /\ [][NewItemNext]_vars

\* the olderThanDays values cleanupRetryQueue is called with
CleanupArgs == {1, CleanupDays}

\* the time at which cleanupRetryQueue is probed: later than every cutoff
CleanupClock == (CleanupDays + 1) * DayMs

\* status and updated_at of the rows of a drawn table: every status, updated just
\* before each cutoff, at it, and now
OldRowKinds ==
  [status : {"pending", "processing", "completed", "failed"},
   updated_at : {CleanupClock - d * DayMs - 1 : d \in CleanupArgs}
                  \cup {CleanupClock - d * DayMs : d \in CleanupArgs} \cup {CleanupClock}]

RECURSIVE RowsOf(_)
\* a table with one row for each kind of K
RowsOf(K) ==
  IF K = {} THEN <<>>
  ELSE LET k == CHOOSE x \in K : TRUE IN
         Append(RowsOf(K \ {k}),
                [operation_type |-> "fee_claim", pool_address |-> "poolA", payload |-> "empty",
                 retry_count |-> 0, max_retries |-> DefaultMaxRetries, last_error |-> NoError,
                 last_attempt_at |-> NoTime, next_retry_at |-> 0, status |-> k.status,
                 created_at |-> 0, updated_at |-> k.updated_at])

\* cleanupRetryQueue on its own, on every table of up to MaxOld such rows.
CleanupInit ==
  /\ cronValid = [n \in ConfiguredCrons |-> TRUE]
  /\ burnAfterBuyback = TRUE
  /\ backoffMultiplier = 2
  /\ SchedInit
  /\ storeMode = "up"
  /\ now = CleanupClock
  /\ \E K \in {k \in SUBSET OldRowKinds : Cardinality(k) <= MaxOld} : items = RowsOf(K)
  /\ nextId = Len(items) + 1
  /\ failures = [id \in DOMAIN items |-> 0]
  /\ succeededOps = {}
  /\ files = <<>>
  /\ lastEnqueue = [seq |-> 0, args |-> [operationType |-> "none", poolAddress |-> NoPool,
                                         payload |-> "none"],
                    maxRetries |-> 0, answer |-> "none", raised |-> FALSE]
  /\ backoffProbe = [retryCount |-> -1, at |-> 0, nextRetryAt |-> 0]

CleanupNext ==
  \/ \E d \in CleanupArgs : cleanupRetryQueue(d)
  \/ StoreChanges
  \/ \E r \in InFlight : CleanupRetryQueue(r)
  \/ \E r \in InFlight : Returned(r)

SpecCleanup == CleanupInit /\ [][CleanupNext]_vars

\* calculateNextRetryTime on its own, for every retry count and configured multiplier.
ProbeBackoff ==
  /\ \E retryCount \in 0..MaxRetryCount :
       backoffProbe' = [retryCount |-> retryCount, at |-> now,
                        nextRetryAt |-> calculateNextRetryTime(retryCount)]
  /\ UNCHANGED <<cfgVars, schedVars, queueVars>>

BackoffInit ==
  /\ cronValid = [n \in ConfiguredCrons |-> TRUE]
  /\ burnAfterBuyback = TRUE
  /\ backoffMultiplier \in BackoffMultipliers
  /\ SchedInit
  /\ QueueInit

BackoffNext ==
  \/ ProbeBackoff
  \/ MsPasses
  \/ HourPasses

SpecBackoff == BackoffInit /\ [][BackoffNext]_vars
\* ================================================================== claims
RECURSIVE Copies(_)
\* number of invocations in flight among the records of S
Copies(S) ==
  IF S = {} THEN 0
  ELSE LET r == CHOOSE x \in S : TRUE IN CopiesIn(r, inv) + Copies(S \ {r})

\* the invocations in flight that hold object g of task n
Holders(n, g) == {r \in InFlight : r.name = n /\ r.taskInfo = g}

\* number of bodies of task n executing
Executions(n) == Copies({r \in InFlight : r.name = n})

\* the latest step was a skipped invocation of task n
SkipLogged(n) == lastLog = [src |-> n, msg |-> "already running, skipping", held |-> 0]

\* C1: the registered object of a task is never held by more than one execution of the
\* task's body, and an invocation is skipped only while the invocation that holds the
\* registered object is in flight: it starts no execution, so exactly one is executing.
C1_SecondInvocationSkipped ==
  \A n \in TaskNames :
    /\ tasks[n] # 0 => Copies(Holders(n, tasks[n])) <= 1
    /\ SkipLogged(n) => tasks[n] # 0 /\ Copies(Holders(n, tasks[n])) = 1

\* a second invocation was just skipped while the first one is executing
C1_Witness ==
  \E n \in TaskNames :
    /\ SkipLogged(n)
    /\ tasks[n] # 0
    /\ Copies(Holders(n, tasks[n])) = 1
    /\ Executions(n) = 1

\* C2: at most one execution of a task's body is in flight at any time.
C2_AtMostOneExecution == \A n \in TaskNames : Executions(n) <= 1

\* C3: an isRunning flag is true only while the invocation that set it is in flight, so
\* it is false once that invocation has ended, however it ended (every end of a handler
\* resolves its promise), and the next trigger is not skipped.
C3_FlagReleased ==
  \A n \in TaskNames : \A g \in isRunning[n] : Holders(n, g) # {}

\* an invocation that had set the flag of the registered object just ended in its catch
\* block, and the flag is false
C3_Witness ==
  /\ lastLog.msg = "failed"
  /\ lastLog.held # 0
  /\ tasks[lastLog.src] = lastLog.held
  /\ lastLog.held \notin isRunning[lastLog.src]

\* C4: after N >= 1 failed attempts on an item, retry_count is N and the item is failed
\* if N >= max_retries and pending if not (an attempt still under way shows processing,
\* an item that succeeded later completed).
C4_RetryCountCountsFailures ==
  \A id \in DOMAIN items :
    LET N == failures[id]
        row == items[id]
    IN /\ row.retry_count = N
       /\ (N >= 1 /\ row.status \notin {"processing", "completed"}) =>
            /\ row.status = "failed" <=> N >= row.max_retries
            /\ row.status = "pending" <=> N < row.max_retries

\* C5: retry_count never exceeds max_retries, and an item whose retry_count has reached
\* max_retries is failed.
C5_RetryCountBelowCeiling ==
  \A id \in DOMAIN items :
    /\ items[id].retry_count <= items[id].max_retries
    /\ items[id].retry_count = items[id].max_retries => items[id].status = "failed"

\* C6: a completed or failed item keeps its status for as long as it exists.
C6_TerminalStaysTerminal ==
  [][\A id \in DOMAIN items :
       (items[id].status \in {"completed", "failed"} /\ id \in DOMAIN items')
         => items'[id].status = items[id].status]_vars

\* a step in which a caller's addToRetryQueue call was made
EnqueueStep == lastEnqueue'.seq # lastEnqueue.seq

\* C7: addToRetryQueue never raises, and when the store did not take the insert (it
\* threw or answered with an error) a fallback file holding the operation exists after
\* the call.
C7_FallbackWhenStoreFails ==
  [][EnqueueStep =>
       /\ ~lastEnqueue'.raised
       /\ lastEnqueue'.answer # "up" =>
            \E f \in DOMAIN files' :
              /\ files'[f].operationType = lastEnqueue'.args.operationType
              /\ files'[f].poolAddress = lastEnqueue'.args.poolAddress
              /\ files'[f].payload = lastEnqueue'.args.payload]_vars

\* a step in which processLocalFallbacks re-submitted the file it is working on
ResubmitStep ==
  \E r \in InFlight :
    /\ r.pc = "fallback_file"
    /\ Head(r.files) \in DOMAIN files
    /\ inv' = Move(r, [r EXCEPT !.pc = "unlink"])

\* C8: an enqueue with the store unreachable adds one fallback file and no item; with
\* the store reachable, processLocalFallbacks inserts one pending item for the file it
\* works on, and after it has returned no fallback file is left.
C8_OutageRoundTrip ==
  [][/\ (EnqueueStep /\ lastEnqueue'.answer # "up") =>
          /\ Cardinality(DOMAIN files') = Cardinality(DOMAIN files) + 1
          /\ items' = items
     /\ (ResubmitStep /\ storeMode = "up") =>
          /\ DOMAIN items' = DOMAIN items \cup {nextId}
          /\ items'[nextId].status = "pending"
     /\ (inv # EmptyBag /\ inv' = EmptyBag /\ storeMode = "up") => files' = <<>>]_vars

\* C9: when a task operation run by a scheduled handler has just failed for a pool, the
\* retry queue or the fallback directory holds a record for that operation and pool.
C9_FailureIsEnqueued ==
  lastLog.src \in {"fee_claim", "buyback", "burn"} =>
    \/ \E id \in DOMAIN items : /\ items[id].operation_type = lastLog.src
                                /\ items[id].pool_address = lastLog.msg
    \/ \E f \in DOMAIN files : /\ files[f].operationType = lastLog.src
                               /\ files[f].poolAddress = lastLog.msg

\* the delay, in seconds, of the probed backoff
ProbedDelay == (backoffProbe.nextRetryAt - backoffProbe.at) \div 1000

\* C10: the backoff for retry count r is min(60 * 2^r, 3600) seconds whatever the
\* configured multiplier is: 60 for 0, 480 for 3, 3600 for 6, never above 3600, and a
\* larger retry count never gives a smaller delay.
C10_Backoff ==
  /\ [](backoffProbe.retryCount >= 0 =>
          /\ ProbedDelay * 1000 = backoffProbe.nextRetryAt - backoffProbe.at
          /\ ProbedDelay = IF 60 * 2^backoffProbe.retryCount <= 3600
                             THEN 60 * 2^backoffProbe.retryCount ELSE 3600
          /\ ProbedDelay <= 3600
          /\ backoffProbe.retryCount = 0 => ProbedDelay = 60
          /\ backoffProbe.retryCount = 3 => ProbedDelay = 480
          /\ backoffProbe.retryCount = 6 => ProbedDelay = 3600)
  /\ [][(backoffProbe.retryCount >= 0 /\ backoffProbe'.retryCount >= backoffProbe.retryCount)
          => ProbedDelay' >= ProbedDelay]_vars

\* the capped delay was computed under a configured multiplier of 3
C10_Witness ==
  /\ backoffMultiplier = 3
  /\ backoffProbe.retryCount = 6
  /\ ProbedDelay = 3600
\* C11: next_retry_at of an item never decreases over the item's life.
C11_NextRetryAtMonotone ==
  [][\A id \in DOMAIN items \cap DOMAIN items' :
       items'[id].next_retry_at >= items[id].next_retry_at]_vars
\* a step in which processRetryItem hands item id to its task operation
DispatchStep(id) ==
  \E r \in InFlight :
    /\ r.pc = "mark"
    /\ Head(r.pendingItems).id = id
    /\ \E q \in BagToSet(inv') : q.pc = "operation" /\ inv' = Move(r, q)

\* C12: an item is dispatched to its task operation only at a time at or after its
\* current next_retry_at (which a failed attempt at time t with new retry count r has
\* set to t + min(60 * 2^r, 3600) s).
C12_NoDispatchBeforeNextRetryAt ==
  [][\A id \in DOMAIN items : DispatchStep(id) => items[id].next_retry_at <= now]_vars
\* a step in which a direct call r of getPendingRetries resolves with the list q holds
FetchReturns(r, q) ==
  /\ r.name = "getPendingRetries"
  /\ r.pc = "getPendingRetries"
  /\ q.pc = "returned"
  /\ inv' = Move(r, q)

\* the list res is what the claim says the select gives on the table as it is
ExactlyTheOldestDue(res) ==
  LET ids == {res[i].id : i \in 1..Len(res)}
      due == {id \in DOMAIN items : items[id].status = "pending" /\ items[id].next_retry_at <= now}
  IN /\ Cardinality(ids) = Len(res)
     /\ ids \subseteq due
     /\ Len(res) = IF Cardinality(due) <= 10 THEN Cardinality(due) ELSE 10
     /\ \A i, j \in 1..Len(res) :
          i < j => items[res[i].id].created_at <= items[res[j].id].created_at
     /\ \A id \in due \ ids : \A i \in 1..Len(res) :
          items[res[i].id].created_at <= items[id].created_at
     /\ \A i \in 1..Len(res) :
          /\ res[i].retry_count = items[res[i].id].retry_count
          /\ res[i].max_retries = items[res[i].id].max_retries
          /\ res[i].operation_type = items[res[i].id].operation_type
          /\ res[i].pool_address = items[res[i].id].pool_address
          /\ res[i].payload = items[res[i].id].payload

\* C13: getPendingRetries returns exactly the rows that are pending with next_retry_at
\* <= now, oldest created_at first, cut to the 10 oldest, and the empty list when the
\* select reports an error.
C13_FetchDue ==
  [][\A r \in InFlight : \A q \in BagToSet(inv') :
       FetchReturns(r, q) =>
         /\ storeMode = "error" => q.pendingItems = <<>>
         /\ storeMode = "up" => ExactlyTheOldestDue(q.pendingItems)]_vars

\* a call has returned 10 rows of a table that holds more than 10 due rows and a row
\* of another kind
C13_Witness ==
  \E r \in InFlight :
    /\ r.name = "getPendingRetries"
    /\ r.pc = "returned"
    /\ Len(r.pendingItems) = 10
    /\ Cardinality(Due) > 10
    /\ DOMAIN items \ Due # {}
\* a step in which a direct call r of cleanupRetryQueue resolves, q holding the count
CleanupReturns(r, q) ==
  /\ r.name = "cleanupRetryQueue"
  /\ r.pc = "cleanupRetryQueue"
  /\ q.pc = "returned"
  /\ inv' = Move(r, q)

\* C14: cleanupRetryQueue(d) deletes exactly the rows that are completed or failed with
\* updated_at before now - d days and leaves every other row as it is, pending and
\* processing rows of any age included; it returns the number of rows deleted, and 0
\* with nothing deleted when the delete reports an error.
C14_Cleanup ==
  [][\A r \in InFlight : \A q \in BagToSet(inv') :
       CleanupReturns(r, q) =>
         LET gone == DOMAIN items \ DOMAIN items' IN
           /\ \A id \in DOMAIN items' : id \in DOMAIN items /\ items'[id] = items[id]
           /\ \A id \in DOMAIN items :
                items[id].status \in {"pending", "processing"} => id \notin gone
           /\ q.result = Cardinality(gone)
           /\ storeMode = "error" => gone = {} /\ q.result = 0
           /\ storeMode = "up" =>
                gone = {id \in DOMAIN items :
                          /\ items[id].status \in {"completed", "failed"}
                          /\ items[id].updated_at < now - r.arg * 24 * 60 * 60 * 1000}]_vars

\* a call has returned 2 for the two rows it deleted and has left a pending row that is
\* older than its cutoff
C14_Witness ==
  \E r \in InFlight :
    /\ r.name = "cleanupRetryQueue"
    /\ r.pc = "returned"
    /\ r.result = 2
    /\ \E id \in DOMAIN items :
         /\ items[id].status = "pending"
         /\ items[id].updated_at < now - r.arg * DayMs
\* a step of the drain r that ends in q
DrainStep(r, q) == r.name = "retry" /\ inv' = Move(r, q) /\ q # r

NoTally(q) == q.processed = 0 /\ q.succeeded = 0 /\ q.failed = 0

Abandons(r) ==
  /\ r.name = "retry"
  /\ r.pc \in {"mark", "operation"}
  /\ Len(r.pendingItems) > 1
  /\ inv' = Take(r)

\* the attempt of the drain r on the row at the head of its list fails in this step
AttemptFails(r) ==
  /\ r.name = "retry"
  /\ r.pc = "operation"
  /\ LET id == Head(r.pendingItems).id IN
       id \in DOMAIN failures /\ id \in DOMAIN failures' /\ failures'[id] = failures[id] + 1
  /\ CopiesIn(r, inv') < CopiesIn(r, inv)

\* C16: within one drain no failure of an item (its operation answering success=false
\* or throwing, or a store update for it failing) keeps the rows fetched after it from
\* being attempted, and the error of each failing item is in its own last_error.
C16_FailureIsolated ==
  [][\A r \in InFlight :
       /\ ~ Abandons(r)
       /\ AttemptFails(r) =>
            LET id == Head(r.pendingItems).id IN
              id \in DOMAIN items' /\ items'[id].last_error # NoError]_vars
\* the processRetryItem executions in flight on row id: between the mark-processing
\* update and the write of the result
WorkingOn(id) ==
  {r \in InFlight : r.name = "retry" /\ r.pc = "operation" /\ Head(r.pendingItems).id = id}

\* C17: in every state of a single service instance at most one row has status
\* processing, and no row is worked on by two processRetryItem executions at once.
C17_OneProcessing ==
  /\ Cardinality({id \in DOMAIN items : items[id].status = "processing"}) <= 1
  /\ \A id \in DOMAIN items : Copies(WorkingOn(id)) <= 1
\* processLocalFallbacks deletes file f in this step
Unlinks(f) ==
  /\ f \notin DOMAIN files'
  /\ \E r \in InFlight : r.pc = "unlink" /\ Head(r.files) = f /\ inv' # inv

\* the row id of the table t carries the record rec of a fallback file
Carries(t, id, rec) ==
  /\ t[id].operation_type = rec.operationType
  /\ t[id].pool_address = rec.poolAddress
  /\ t[id].payload = rec.payload

\* processLocalFallbacks fails to read the file it is about to re-submit, with other
\* listed files still to do
ReadFails(r) ==
  /\ r.pc = "fallback_file"
  /\ Head(r.files) \notin DOMAIN files
  /\ Len(r.files) > 1
  /\ inv' # inv /\ CopiesIn(r, inv') < CopiesIn(r, inv)

\* C18: processLocalFallbacks deletes a fallback file only when a row carrying its
\* record is in the store; a file that cannot be read does not end the scan of the
\* other listed files, and no error reaches the caller.
C18_UnlinkAfterInsert ==
  [][/\ \A f \in DOMAIN files :
          Unlinks(f) => \E id \in DOMAIN items' : Carries(items', id, files[f])
     /\ \A r \in InFlight :
          ReadFails(r) => \E q \in BagToSet(inv') : q.pc = "fallback_file" /\ q.files = Tail(r.files)
     /\ lastLog'.msg # "rejected"]_vars
\* the operation dispatched in the latest step found nothing left to do
NothingLeftToDo ==
  \/ lastLog = OperationLog("claimFeesFromPool", "No fees to claim")
  \/ lastLog = OperationLog("burnTokensForPool", "No tokens to burn for this pool")

\* C19: when the operation of a retry attempt finds nothing left to do (no claimable
\* fees, no token balance) while the store answers, the attempt counts as succeeded:
\* the row is marked completed and no failed attempt is counted for it.
C19_NothingToDoCompletes ==
  [][\A r \in InFlight :
       (r.name = "retry" /\ r.pc = "operation" /\ storeMode = "up" /\ NothingLeftToDo') =>
         LET id == Head(r.pendingItems).id IN
           /\ id \in DOMAIN items' /\ items'[id].status = "completed"
           /\ failures' = failures]_vars
\* the jobs an error line of startScheduler names
JobsNamed(msg) ==
  CASE msg = "Invalid fee collection cron expression" -> {"fee_collection"}
    [] msg = "Invalid buyback cron expression" -> {"buyback"}
    [] msg = "Invalid fee collection cron expression; Invalid buyback cron expression" ->
         {"fee_collection", "buyback"}
    [] OTHER -> {}

\* C20: a startScheduler call registers a job if and only if its expression validates:
\* a job with an invalid expression has an error logged, no cron trigger and no entry
\* in the registry; every job with a valid expression gets a new trigger and a new
\* entry whose isRunning is false.
C20_RegisteredIffValid ==
  [][starts' = starts + 1 =>
       \A n \in TaskNames :
         IF Validates(n)
           THEN /\ tasks'[n] = starts'
                /\ starts' \in cronJobs'[n]
                /\ tasks'[n] \notin isRunning'[n]
           ELSE /\ tasks'[n] = 0
                /\ cronJobs'[n] = {}
                /\ lastLog'.src = "startScheduler"
                /\ n \in JobsNamed(lastLog'.msg)]_vars
\* C21: while the registry is empty (startScheduler never called, or stopScheduler
\* called since, once or more) getSchedulerStatus is empty and no cron trigger is left
\* that could fire a handler.
C21_StopStopsEveryTrigger ==
  (\A n \in TaskNames : tasks[n] = 0) =>
    /\ getSchedulerStatus = {}
    /\ \A n \in TaskNames : cronJobs[n] = {}
\* a trigger of task n starts an execution of the handler's body in this step
BodyStarts(n) == \E q \in BagToSet(inv') : q.name = n /\ inv' = inv (+) SetToBag({q})

\* C22: a trigger of a task starts the body only while no execution of that task is in
\* flight, and it is skipped only while an execution of that same task is in flight:
\* what other tasks are doing never decides it.
C22_OnlyOwnTaskBlocks ==
  [][\A n \in TaskNames :
       /\ BodyStarts(n) => Executions(n) = 0
       /\ (SkipLogged(n)' /\ ~SkipLogged(n)) => Executions(n) >= 1]_vars
\* C23: triggerTask with a name that is none of the five tasks throws 'Unknown task',
\* starts no body and changes no isRunning flag; with the name of a task it runs that
\* task's handler as a cron tick does: the guard is consulted, and the body starts at
\* the handler's first await holding the registered object with its flag set.
C23_TriggerTask ==
  [][/\ lastLog' = UnknownTask => inv' = inv /\ isRunning' = isRunning /\ tasks' = tasks
     /\ \A n \in TaskNames :
          BodyStarts(n) =>
            /\ ~GuardSkips(n)
            /\ \E q \in BagToSet(inv') :
                 /\ inv' = inv (+) SetToBag({q})
                 /\ q.pc = FirstPc(n)
                 /\ q.taskInfo = tasks[n]
                 /\ q.taskInfo # 0 => q.taskInfo \in isRunning'[n]
     /\ \A n \in TaskNames :
          (SkipLogged(n)' /\ ~SkipLogged(n)) => GuardSkips(n) /\ inv' = inv]_vars

\* triggerTask has just thrown for an unknown name while a handler is running with its
\* flag set
C23_Witness ==
  /\ lastLog = UnknownTask
  /\ \E r \in InFlight : r.taskInfo # 0 /\ r.taskInfo \in isRunning[r.name]

\* C24: a failed attempt whose update the store applies, on a fetched item whose
\* incremented retry count r is below
\* max_retries leaves the row pending with retry_count r, the failure message in
\* last_error and next_retry_at = now + min(60 * 2^r, 3600) s (120 s after the first
\* failure); one that reaches max_retries leaves it failed with the message in
\* last_error and next_retry_at as it was.
C24_FailureBranch ==
  [][\A r \in InFlight :
       AttemptFails(r) /\ storeMode = "up" /\ Head(r.pendingItems).id \in DOMAIN items =>
         LET item == Head(r.pendingItems)
             n == item.retry_count + 1
             delay == IF 60 * 2^n <= 3600 THEN 60 * 2^n ELSE 3600
         IN /\ item.id \in DOMAIN items'
            /\ items'[item.id].last_error \in {"thrown", "Operation returned unsuccessful"}
            /\ items'[item.id].retry_count = n
            /\ IF n < item.max_retries
                 THEN /\ items'[item.id].status = "pending"
                      /\ items'[item.id].next_retry_at = now + delay * 1000
                      /\ n = 1 => items'[item.id].next_retry_at = now + 120 * 1000
                 ELSE /\ items'[item.id].status = "failed"
                      /\ items'[item.id].next_retry_at = items[item.id].next_retry_at]_vars

\* an item has just failed for good at its fifth failed attempt, after four backoffs
C24_Witness ==
  \E id \in DOMAIN items :
    /\ items[id].status = "failed"
    /\ items[id].max_retries = DefaultMaxRetries
    /\ items[id].retry_count = DefaultMaxRetries
    /\ items[id].last_error # NoError
    /\ items[id].updated_at = now
    /\ failures[id] = DefaultMaxRetries

\* processRetryItem, called by r for the item at the head of its list, returns q's tally
ProcessOneReturns(r, q) ==
  /\ r.name = "retry"
  /\ r.pc = "operation"
  /\ inv' = Move(r, q)
  /\ q.succeeded + q.failed = r.succeeded + r.failed + 1

\* C25: when processRetryItem returns, the row of its item is completed if it returned
\* true and pending or failed if it returned false; the row is not left processing.
C25_StatusMatchesReturn ==
  [][\A r \in InFlight : \A q \in BagToSet(inv') :
       ProcessOneReturns(r, q) =>
         LET id == Head(r.pendingItems).id IN
           id \in DOMAIN items' =>
             IF q.succeeded = r.succeeded + 1
               THEN items'[id].status = "completed"
               ELSE items'[id].status \in {"pending", "failed"}]_vars

\* C26: the retry engine dispatches no operation for an item whose dispatched operation
\* has already reported success.
C26_NoDispatchAfterSuccess ==
  [][\A id \in DOMAIN failures : DispatchStep(id) => id \notin succeededOps]_vars

\* C27: whenever no enqueue or processLocalFallbacks call is under way, the retry_queue
\* rows and the fallback files together are as many as the operations enqueued: each
\* operation is held once, none is lost and none is held twice.
C27_EveryOperationOnce ==
  inv = EmptyBag => Cardinality(DOMAIN items) + Cardinality(DOMAIN files) = lastEnqueue.seq

\* C28: an enqueue whose insert throws adds a fallback file of its own: one file more
\* than before, and every file that was there is still there with its content.
C28_OwnFallbackFile ==
  [][(EnqueueStep /\ lastEnqueue'.answer = "throws") =>
       /\ Cardinality(DOMAIN files') = Cardinality(DOMAIN files) + 1
       /\ \A f \in DOMAIN files : f \in DOMAIN files' /\ files'[f] = files[f]]_vars

\* C30: while the operation of an item is executing, the row of that item has status
\* processing.
C30_ProcessingWhileExecuting ==
  \A r \in InFlight :
    (r.name = "retry" /\ r.pc = "operation") =>
      LET id == Head(r.pendingItems).id IN
        id \in DOMAIN items /\ items[id].status = "processing"

\* C29: with the drain cycle firing, the store answering and every operation returning,
\* every row of the queue ends up completed or failed and stays so, also when more rows
\* are due than one select returns.
C29_EveryItemSettles ==
  \A id \in 1..LiveRows :
    <>[](id \in DOMAIN items /\ items[id].status \in {"completed", "failed"})

\* every one of more than FetchLimit rows is settled, one of them after max_retries
\* failed attempts
C29_Witness ==
  /\ Cardinality(DOMAIN items) > FetchLimit
  /\ \A id \in DOMAIN items : items[id].status \in {"completed", "failed"}
  /\ \E id \in DOMAIN items : /\ items[id].status = "failed"
                                /\ items[id].retry_count = DefaultMaxRetries

\* the logs of the task operations processRetryItem dispatches
OperationSources == {"claimFeesFromPool", "burnTokensForPool"}

\* C31: an attempt on a fee_claim, buyback or burn item whose pool address is null or
\* not registered runs no task operation and ends as a failed attempt: processRetryItem
\* returns false to the drain loop, retry_count is one higher and the row is pending
\* or failed.
C31_NoPoolIsOrdinaryFailure ==
  [][\A r \in InFlight :
       (/\ r.name = "retry" /\ r.pc = "operation"
        /\ CopiesIn(r, inv') < CopiesIn(r, inv)
        /\ Head(r.pendingItems).operation_type \in {"fee_claim", "buyback", "burn"}
        /\ Head(r.pendingItems).pool_address \notin Pools) =>
         LET item == Head(r.pendingItems) IN
           /\ \E q \in BagToSet(inv') :
                /\ inv' = Move(r, q)
                /\ q.failed = r.failed + 1 /\ q.succeeded = r.succeeded
           /\ lastLog'.src \notin OperationSources
           /\ items'[item.id].retry_count = item.retry_count + 1
           /\ items'[item.id].status \in {"pending", "failed"}]_vars

\* an attempt on an item with an unregistered pool address has failed for good
C31_Witness ==
  \E id \in DOMAIN items :
    /\ items[id].pool_address = UnknownPool
    /\ items[id].status = "failed"
    /\ items[id].retry_count = DefaultMaxRetries

\* the fields of a row that are given at enqueue
Given(row) ==
  [operation_type |-> row.operation_type, pool_address |-> row.pool_address,
   payload |-> row.payload, max_retries |-> row.max_retries, created_at |-> row.created_at]

\* r's processRetryItem takes a step on the way of a successful attempt: the mark, or
\* the completion write after the operation reported success
SuccessPathStep(r) ==
  /\ r.name = "retry"
  /\ CopiesIn(r, inv') < CopiesIn(r, inv)
  /\ \/ r.pc = "mark" /\ \E q \in BagToSet(inv') : q.pc = "operation" /\ inv' = Move(r, q)
     \/ r.pc = "operation" /\ \E q \in BagToSet(inv') :
                                inv' = Move(r, q) /\ q.succeeded = r.succeeded + 1

\* C32: no step changes the operation type, pool address, payload, max_retries or
\* created_at of a row, a row keeps its id, and the steps of a successful attempt leave
\* retry_count, last_error and next_retry_at of its row as they were.
C32_GivenFieldsKept ==
  [][/\ \A id \in DOMAIN items \cap DOMAIN items' : Given(items'[id]) = Given(items[id])
     /\ \A r \in InFlight :
          SuccessPathStep(r) =>
            LET id == Head(r.pendingItems).id IN
              id \in DOMAIN items =>
                /\ id \in DOMAIN items'
                /\ items'[id].retry_count = items[id].retry_count
                /\ items'[id].last_error = items[id].last_error
                /\ items'[id].next_retry_at = items[id].next_retry_at]_vars

\* a buyback row was completed on a retry after a failed attempt, its payload in place
C32_Witness ==
  \E id \in DOMAIN items :
    /\ items[id].status = "completed"
    /\ items[id].retry_count >= 1
    /\ items[id].last_error # NoError
    /\ items[id].payload = "solAmount"
    /\ id \in succeededOps

\* C33: after a single enqueue that went to the fallback directory, every row the
\* store holds carries the operation type, pool address, payload and max_retries of
\* that enqueue call.
C33_FallbackKeepsArguments ==
  (lastEnqueue.seq = 1 /\ lastEnqueue.answer = "throws") =>
    \A id \in DOMAIN items :
      /\ items[id].operation_type = lastEnqueue.args.operationType
      /\ items[id].pool_address = lastEnqueue.args.poolAddress
      /\ items[id].payload = lastEnqueue.args.payload
      /\ items[id].max_retries = lastEnqueue.maxRetries

\* the drain r takes the step in which its select returns
CycleFetch(r, q) ==
  /\ r.name = "retry"
  /\ r.pc = "getPendingRetries"
  /\ q.pc \in {"mark", "cleanupRetryQueue"}
  /\ inv' = Move(r, q)

\* C34: in a drain cycle the fallback directory has been worked off when the select
\* runs; the select returns every due row, oldest created_at first; a row inserted
\* from a fallback file is due from its insert on; and between two items nothing is
\* open: when the drain marks an item every item it marked before has been counted as
\* succeeded or failed.
C34_DrainOrder ==
  [][/\ \A r \in InFlight : \A q \in BagToSet(inv') :
          CycleFetch(r, q) =>
            /\ files = <<>>
            /\ {q.pendingItems[i].id : i \in DOMAIN q.pendingItems} = Due
            /\ \A i, j \in DOMAIN q.pendingItems :
                 i < j => items[q.pendingItems[i].id].created_at
                            <= items[q.pendingItems[j].id].created_at
     /\ \A r \in InFlight :
          (r.name = "retry" /\ r.pc = "fallback_file" /\ DOMAIN items' # DOMAIN items)
            => /\ items'[nextId].status = "pending"
               /\ items'[nextId].next_retry_at <= now'
     /\ \A r \in InFlight :
          r.name = "retry" =>
            /\ r.pc = "mark" => r.succeeded + r.failed = r.processed
            /\ r.pc = "operation" => r.succeeded + r.failed + 1 = r.processed
            /\ r.pc = "getPendingRetries" => r.processed = 0]_vars

\* a drain that has finished an older item is about to mark a row it recovered from a
\* fallback file in the same cycle
C34_Witness ==
  \E r \in InFlight :
    /\ r.name = "retry" /\ r.pc = "mark" /\ r.processed >= 1
    /\ files = <<>>
    /\ items[Head(r.pendingItems).id].created_at = now
    /\ items[Head(r.pendingItems).id].operation_type = "register"

\* the call r of processLocalFallbacks returns in this step
FallbacksReturn(r) ==
  /\ r.name = "processLocalFallbacks"
  /\ CopiesIn(r, inv') < CopiesIn(r, inv)
  /\ inv' = Take(r)

\* the count such a call returns: processed, one more when this step is the unlink of
\* its last file
ReturnedCount(r) ==
  r.processed + IF r.pc = "unlink" /\ Head(r.files) \in DOMAIN files THEN 1 ELSE 0

\* C35: the count processLocalFallbacks returns is the number of rows the store took
\* from the call; the count goes up exactly in the steps that delete a file; a call that
\* finds no file returns 0 and leaves the table and the directory as they were.
C35_CountIsInsertedAndDeleted ==
  [][\A r \in InFlight :
       /\ FallbacksReturn(r) =>
            /\ ReturnedCount(r) = r.inserted
            /\ r.pc = "readdir" =>
                 ReturnedCount(r) = 0 /\ items' = items /\ files' = files
       /\ (r.name = "processLocalFallbacks" /\ r.pc = "unlink"
              /\ CopiesIn(r, inv') < CopiesIn(r, inv) /\ ~FallbacksReturn(r)) =>
            \E q \in BagToSet(inv') :
              /\ inv' = Move(r, q)
              /\ q.processed = r.processed + 1
              /\ Cardinality(DOMAIN files') = Cardinality(DOMAIN files) - 1]_vars

\* C36: an item with max_retries >= 1 is dispatched max_retries times at most (so the
\* attempts on it that ended in the failure branch are no more than that), and never
\* while its row is completed or failed.
C36_DispatchesBounded ==
  [][\A id \in DOMAIN items :
       /\ items[id].max_retries >= 1 => failures[id] <= items[id].max_retries
       /\ DispatchStep(id) => items[id].status \notin {"completed", "failed"}]_vars

\* C37: every cron trigger still active is the one the registry refers to, so a task
\* name has one active trigger at most and stopScheduler stops them all; and a task
\* whose handler is in flight is not shown as idle by its registry entry.
C37_TriggersAreRegistered ==
  \A n \in TaskNames :
    /\ cronJobs[n] \subseteq {tasks[n]} \ {0}
    /\ Cardinality(cronJobs[n]) <= 1
    /\ (tasks[n] # 0 /\ Executions(n) >= 1) => tasks[n] \in isRunning[n]

\* the flag of the registry object invocation r holds is false after the step
Released(r) == r.taskInfo # 0 => r.taskInfo \notin isRunning'[r.name]

\* C39: in a run of the buyback task the multi-token buyback is under way only after a
\* balance check that met the threshold, the burn only after a buyback that reported
\* success and with burnAfterBuyback on; a run that ends at the balance check starts
\* neither and releases isRunning.
C39_BuybackGated ==
  [][\A r \in InFlight : r.name = "buyback" =>
       /\ r.pc \in {"executeMultiBuyback", "burnAllTokens"} => r.arg >= MinBuybackSol
       /\ r.pc = "burnAllTokens" => r.result = 1 /\ burnAfterBuyback
       /\ \A q \in BagToSet(inv') :
            (CopiesIn(r, inv') < CopiesIn(r, inv) /\ inv' = Move(r, q)) =>
              /\ q.pc = "executeMultiBuyback" => r.pc = "shouldExecuteBuyback"
              /\ q.pc = "burnAllTokens" => r.pc = "executeMultiBuyback"
       /\ (r.pc = "shouldExecuteBuyback" /\ inv' = Take(r)) => Released(r)]_vars

\* a run that passed the balance check and the buyback is at the burn, holding the flag
C39_Witness ==
  \E r \in InFlight :
    /\ r.name = "buyback" /\ r.pc = "burnAllTokens"
    /\ r.taskInfo # 0 /\ r.taskInfo \in isRunning["buyback"]
    /\ r.arg = MinBuybackSol

\* an addToRetryQueue call of this step made the store insert row nextId
EnqueueWrote == lastEnqueue'.seq = lastEnqueue.seq + 1 /\ nextId' = nextId + 1

\* the row enqueue wrote in this step is as the claim describes it
WrittenAsNew ==
  LET row == items'[nextId]
  IN /\ row.status = "pending"
     /\ row.retry_count = 0
     /\ row.last_error = NoError
     /\ row.last_attempt_at = NoTime
     /\ row.max_retries = lastEnqueue'.maxRetries
     /\ row.max_retries \in {0, 5}
     /\ row.next_retry_at = now
     /\ row.created_at = now

\* the rows no attempt has touched, created at or before now
NewItems ==
  {id \in DOMAIN items : /\ items[id].status = "pending"
                         /\ items[id].retry_count = 0
                         /\ items[id].last_attempt_at = NoTime
                         /\ items[id].created_at <= now}

\* the ids of a fetched list
IdsOf(res) == {res[i].id : i \in 1..Len(res)}

\* C38 as stated: a row enqueue writes is pending, with retry_count 0, no last_error, no
\* last_attempt_at, the max_retries of the call and next_retry_at = the time of the call,
\* and every select the store answers at or after its creation returns it.
C38_ReturnedByFirstFetch ==
  [][/\ EnqueueWrote => WrittenAsNew
     /\ \A r \in InFlight : \A q \in BagToSet(inv') :
          (FetchReturns(r, q) /\ storeMode = "up") => NewItems \subseteq IdsOf(q.pendingItems)]_vars

\* C38: a row enqueue writes is pending, with retry_count 0, no last_error, no
\* last_attempt_at, the max_retries of the call and next_retry_at = the time of the call;
\* it matches the filters of the select from its creation on, and a select the store
\* answers returns it unless it returns FetchLimit rows none of which is younger.
C38_NewItemIsDue ==
  [][/\ EnqueueWrote => (WrittenAsNew /\ nextId \in Due')
     /\ NewItems \subseteq Due
     /\ \A r \in InFlight : \A q \in BagToSet(inv') :
          (FetchReturns(r, q) /\ storeMode = "up") =>
            \A id \in NewItems :
              \/ id \in IdsOf(q.pendingItems)
              \/ /\ Len(q.pendingItems) = FetchLimit
                 /\ \A i \in 1..FetchLimit :
                      items[q.pendingItems[i].id].created_at <= items[id].created_at]_vars

\* a select has returned FetchLimit rows, the youngest of them the row an
\* addToRetryQueue call with maxRetries 0 wrote after the hour
C38_Witness ==
  /\ lastEnqueue.answer = "up"
  /\ lastEnqueue.maxRetries = 0
  /\ \E r \in InFlight :
       /\ r.name = "getPendingRetries" /\ r.pc = "returned"
       /\ Len(r.pendingItems) = FetchLimit
       /\ \E i \in 1..FetchLimit :
            /\ r.pendingItems[i].max_retries = 0
            /\ items[r.pendingItems[i].id].created_at >= HourMs
            /\ items[r.pendingItems[i].id].next_retry_at = items[r.pendingItems[i].id].created_at
====
